---- MODULE Spec2Model ----
(***************************************************************************)
(* A model of lab.py: the Trie class (a prefix tree with optional values), *)
(* and the autocomplete, autocorrect and word_filter searches built on it. *)
(*                                                                         *)
(* A Python str is modelled as a sequence of one-character strings, a      *)
(* tuple as a sequence of its elements; a key is a record of its Python    *)
(* type and its units.  A dict is a sequence of (k, t) records in          *)
(* insertion order, which is the order Python iterates it in.  A set is a  *)
(* TLA+ set; iterating it takes its elements in an arbitrary order.        *)
(***************************************************************************)
EXTENDS Integers, Sequences, FiniteSets, TLC

\* Bounds of the model.
MaxLen == 3        \* longest key handed to an operation
MaxOther == 1      \* longest key of the other kind handed to an operation
MaxNodes == 3      \* non-root nodes a trie may grow to
MaxCount == 2      \* largest max_count asked for
MaxPat == 2        \* longest wildcard pattern
MaxBuilt == 2      \* non-root nodes of a trie that Store builds
MaxMutations == 1  \* changes made to a trie while one traversal of it is under way

None == -1

\* the alphabet of lines 230 and 246
letters == <<"a", "b", "c", "d", "e", "f", "g", "h", "i", "j", "k", "l", "m",
             "n", "o", "p", "q", "r", "s", "t", "u", "v", "w", "x", "y", "z">>
NumLetters == Len(letters)

\* the letters that the keys and the patterns handed to the operations are
\* written in
KeyLetters == {"a", "b"}

KeyTypes == {"str", "tuple"}
\* the values stored: word counts
Values == {1, 2}

Seqs(S, n) == UNION {[1..m -> S] : m \in 0..n}
Str(units) == [type |-> "str", units |-> units]
\* the keys handed to the operations of a trie
Words == Seqs(KeyLetters, MaxLen)
OtherWords == Seqs(KeyLetters, MaxOther)
Keys(self) ==
    {[type |-> self.key_type, units |-> u] : u \in Words}
    \cup {[type |-> ty, units |-> u] : ty \in KeyTypes \ {self.key_type}, u \in OtherWords}

----
\* The Trie class.

\* Trie.__init__
Trie(key_type) == [value |-> None, key_type |-> key_type, children |-> <<>>]

\* Trie._valid_key: FALSE stands for the TypeError
valid_key(self, key) == key.type = self.key_type

\* key[i] (0-based in Python, 1-based here): a str's item is a str of length 1
Item(key, i) == IF key.type = "str" THEN <<key.units[i]>> ELSE key.units[i]
\* key[1:]
Rest(key) == [type |-> key.type, units |-> Tail(key.units)]
\* the unit a node's children are keyed by: lines 25-26 and 41-43
Unit(self, key, i) == IF self.key_type = "tuple" THEN <<Item(key, i)>> ELSE Item(key, i)

\* k in self.children
HasChild(self, k) == \E i \in 1..Len(self.children) : self.children[i].k = k
ChildIndex(self, k) == CHOOSE i \in 1..Len(self.children) : self.children[i].k = k

RECURSIVE FindFrom(_, _, _, _)
FindFrom(self, cur_trie, key, i) ==
    IF i > Len(key.units) THEN [exc |-> "none", t |-> cur_trie]
    ELSE LET k == Unit(self, key, i)
             at == {j \in DOMAIN cur_trie.children : cur_trie.children[j].k = k}
         IN  IF at # {}
             THEN FindFrom(self, cur_trie.children[CHOOSE j \in at : TRUE].t, key, i + 1)
             ELSE [exc |-> "KeyError"]

\* Trie._find_trie
find_trie(self, key) ==
    IF ~valid_key(self, key) THEN [exc |-> "TypeError"]
    ELSE FindFrom(self, self, key, 1)

\* Trie.__setitem__: the trie after the call, and the exception it raised
RECURSIVE setitem(_, _, _)
setitem(self, key, value) ==
    IF ~valid_key(self, key) THEN [exc |-> "TypeError", self |-> self]
    ELSE IF Len(key.units) = 0 THEN [exc |-> "IndexError", self |-> self]
    ELSE LET cur_key == Unit(self, key, 1)
             children == IF ~HasChild(self, cur_key)
                         THEN Append(self.children, [k |-> cur_key, t |-> Trie(self.key_type)])
                         ELSE self.children
             self1 == [self EXCEPT !.children = children]
             i == ChildIndex(self1, cur_key)
             cur == children[i].t
         IN  IF Len(key.units) = 1
             THEN [exc |-> "none",
                   self |-> [self1 EXCEPT !.children[i].t.value = value]]
             ELSE LET r == setitem(cur, Rest(key), value)
                  IN  [exc |-> r.exc,
                       self |-> [self1 EXCEPT !.children[i].t = r.self]]

\* Trie.__getitem__
getitem(self, key) ==
    LET f == find_trie(self, key)
    IN  IF f.exc # "none" THEN [exc |-> f.exc]
        ELSE [exc |-> "none", val |-> f.t.value]

\* the trie with node.value = v at the node the path of units leads to
RECURSIVE WithValue(_, _, _, _)
WithValue(self, cur_trie, units, v) ==
    IF units = <<>> THEN [cur_trie EXCEPT !.value = v]
    ELSE LET i == ChildIndex(cur_trie, IF self.key_type = "tuple" THEN <<Head(units)>> ELSE Head(units))
         IN  [cur_trie EXCEPT !.children[i].t = WithValue(self, cur_trie.children[i].t, Tail(units), v)]

\* the trie with node.children = c at the node the path of units leads to
RECURSIVE WithChildren(_, _, _, _)
WithChildren(self, cur_trie, units, c) ==
    IF units = <<>> THEN [cur_trie EXCEPT !.children = c]
    ELSE LET i == ChildIndex(cur_trie, IF self.key_type = "tuple" THEN <<Head(units)>> ELSE Head(units))
         IN  [cur_trie EXCEPT !.children[i].t = WithChildren(self, cur_trie.children[i].t, Tail(units), c)]

\* the units of a key as the sequence of what key[i] is for each i
Items(key) == [i \in 1..Len(key.units) |-> Item(key, i)]

\* __delitem__ had it dropped the node's subtree with its value
delitem_pruning(self, key) ==
    LET f == find_trie(self, key)
    IN  IF f.exc # "none" THEN [exc |-> f.exc, self |-> self]
        ELSE IF f.t.value = None THEN [exc |-> "KeyError", self |-> self]
        ELSE [exc |-> "none",
              self |-> WithValue(self, WithChildren(self, self, Items(key), <<>>),
                                 Items(key), None)]

\* Trie.__delitem__
delitem(self, key) ==
    LET f == find_trie(self, key)
    IN  IF f.exc # "none" THEN [exc |-> f.exc, self |-> self]
        ELSE IF f.t.value = None THEN [exc |-> "KeyError", self |-> self]
        ELSE [exc |-> "none", self |-> WithValue(self, self, Items(key), None)]

\* Trie.__contains__
contains(self, key) ==
    LET f == find_trie(self, key)
    IN  IF f.exc = "KeyError" THEN [exc |-> "none", val |-> FALSE]
        ELSE IF f.exc # "none" THEN [exc |-> f.exc]
        ELSE [exc |-> "none", val |-> f.t.value # None]

\* Trie.recursive_generator run to its end with nothing done in between: the
\* (key, value) pairs in the order yielded
RECURSIVE recursive_generator(_, _)
RECURSIVE GenChildren(_, _, _)
GenChildren(key, trie, i) ==
    IF i > Len(trie.children) THEN <<>>
    ELSE recursive_generator(key \o trie.children[i].k, trie.children[i].t)
         \o GenChildren(key, trie, i + 1)
recursive_generator(key, trie) ==
    (IF trie.value # None THEN << <<key, trie.value>> >> ELSE <<>>)
    \o GenChildren(key, trie, 1)

\* Trie.__iter__ run to its end: list(self), or a for loop over self whose
\* body leaves the trie alone (line 202 of autocomplete)
iter(self) == recursive_generator(<<>>, self)

\* A generator suspended at a yield.  It is a stack of recursive_generator
\* frames, the outermost first.  A frame holds key; its trie is the node that
\* key leads to from the root (no operation removes or replaces a node).  A
\* frame that has reached its for loop holds the loop's dict iterator: used,
\* the size of children when the loop began, and idx, the number of items
\* taken.  The innermost frame of a suspended generator stands at its yield,
\* before the loop: its used is None.
Frame(key) == [key |-> key, used |-> None, idx |-> 0]
NodeAt(self, key) == FindFrom(self, self, [type |-> self.key_type, units |-> key], 1).t
Push(stack, key) == Append(stack, Frame(key))
Pop(stack) == SubSeq(stack, 1, Len(stack) - 1)

\* recursive_generator had it yielded the entry of every node, valued or not
Enter_every_node(self, stack, key) ==
    [ev |-> "yield", item |-> <<key, NodeAt(self, key).value>>, stack |-> Push(stack, key)]

\* Trie.recursive_generator from a resumption to the next yield, to the end
\* of the outermost frame (StopIteration) or to the RuntimeError that the
\* iterator of a dict raises when the dict has changed size since the loop
\* over it began.  Enter is lines 108-109 of a new frame, Advance lines
\* 110-111 of the innermost frame.
RECURSIVE Advance(_, _)
RECURSIVE Enter(_, _, _)
Enter(self, stack, key) ==
    IF NodeAt(self, key).value # None
    THEN [ev |-> "yield", item |-> <<key, NodeAt(self, key).value>>, stack |-> Push(stack, key)]
    ELSE Advance(self, Push(stack, key))
Advance(self, stack) ==
    IF stack = <<>> THEN [ev |-> "StopIteration"]
    ELSE LET top == stack[Len(stack)]
             children == NodeAt(self, top.key).children
         IN  IF top.used = None
             THEN Advance(self, [stack EXCEPT ![Len(stack)].used = Len(children)])
             ELSE IF Len(children) # top.used THEN [ev |-> "RuntimeError"]
             ELSE IF top.idx < Len(children)
             THEN Enter(self, [stack EXCEPT ![Len(stack)].idx = top.idx + 1],
                        top.key \o children[top.idx + 1].k)
             ELSE Advance(self, Pop(stack))

\* next(it) on the generator that iter(self) made: started is whether the
\* generator has run at all
resume(self, started, stack) ==
    IF ~started THEN Enter(self, <<>>, <<>>) ELSE Advance(self, stack)

\* number of nodes below the root
RECURSIVE NumNodes(_)
RECURSIVE NumNodesFrom(_, _)
NumNodesFrom(t, i) ==
    IF i > Len(t.children) THEN 0
    ELSE 1 + NumNodes(t.children[i].t) + NumNodesFrom(t, i + 1)
NumNodes(t) == NumNodesFrom(t, 1)

----
\* The searches.

\* the orders a for loop may take the elements of a set in
Orders(S) == {o \in [1..Cardinality(S) -> S] : \A i, j \in DOMAIN o : i # j => o[i] # o[j]}

\* the max_freq update had it compared with < for >
RECURSIVE MaxFreq_smallest(_, _, _)
MaxFreq_smallest(counts, i, max_freq) ==
    IF i > Len(counts) THEN max_freq
    ELSE MaxFreq_smallest(counts, i + 1,
                 IF max_freq = None \/ max_freq = 0 \/ counts[i] < max_freq
                 THEN counts[i] ELSE max_freq)

\* lines 208-209 and 301-302 over the counts seen, in order
RECURSIVE MaxFreq(_, _, _)
MaxFreq(counts, i, max_freq) ==
    IF i > Len(counts) THEN max_freq
    ELSE MaxFreq(counts, i + 1,
                 IF max_freq = None \/ max_freq = 0 \/ counts[i] > max_freq
                 THEN counts[i] ELSE max_freq)

\* lines 216-220 and 306-312: the inner loop over one bucket, taken in order ws
RECURSIVE AppendWhileRoom(_, _, _, _, _)
AppendWhileRoom(element_list, ws, j, prefix, max_count) ==
    IF j > Len(ws) THEN element_list
    ELSE IF max_count = None \/ Len(element_list) < max_count
    THEN AppendWhileRoom(Append(element_list, prefix \o ws[j]), ws, j + 1, prefix, max_count)
    ELSE element_list

\* lines 214-220 and 304-312: the loop for i in range(max_freq, 0, -1); the
\* lists it can leave, one for each order the sets are iterated in
RECURSIVE FillFrom(_, _, _, _, _)
FillFrom(freq_map, i, element_list, prefix, max_count) ==
    IF i <= 0 THEN {element_list}
    ELSE IF i \in DOMAIN freq_map
    THEN UNION {FillFrom(freq_map, i - 1,
                         AppendWhileRoom(element_list, ws, 1, prefix, max_count),
                         prefix, max_count) : ws \in Orders(freq_map[i])}
    ELSE FillFrom(freq_map, i - 1, element_list, prefix, max_count)

\* range(max_freq, 0, -1) raises TypeError when max_freq is None
FillLoop(freq_map, max_freq, element_list, prefix, max_count) ==
    IF max_freq = None THEN {[exc |-> "TypeError"]}
    ELSE {[exc |-> "none", val |-> l] :
            l \in FillFrom(freq_map, max_freq, element_list, prefix, max_count)}

\* autocomplete: the outcomes the call can have
autocomplete(self, prefix, max_count) ==
    LET f == find_trie(self, prefix)
    IN  IF f.exc = "KeyError" THEN {[exc |-> "none", val |-> <<>>]}
        ELSE IF f.exc # "none" THEN {[exc |-> f.exc]}
        ELSE LET es == iter(f.t)
                 counts == [i \in DOMAIN es |-> es[i][2]]
                 freq_map == [c \in {counts[i] : i \in DOMAIN es} |->
                                {es[i][1] : i \in {j \in DOMAIN es : counts[j] = c}}]
                 max_freq == MaxFreq(counts, 1, None)
             IN  FillLoop(freq_map, max_freq, <<>>, prefix.units, max_count)

\* prefix[:i] and prefix[i:] with Python's 0-based i
Upto(s, i) == SubSeq(s, 1, i)
After(s, i) == SubSeq(s, i + 1, Len(s))

\* get_single_insertions, in the order yielded
get_single_insertions(prefix) ==
    [n \in 1..((Len(prefix) + 1) * NumLetters) |->
        LET i == (n - 1) \div NumLetters
            l == letters[((n - 1) % NumLetters) + 1]
        IN  Upto(prefix, i) \o <<l>> \o After(prefix, i)]

\* get_single_deletions
get_single_deletions(prefix) ==
    [n \in 1..Len(prefix) |-> Upto(prefix, n - 1) \o After(prefix, n)]

\* get_single_replacement
get_single_replacement(prefix) ==
    [n \in 1..(Len(prefix) * NumLetters) |->
        LET i == (n - 1) \div NumLetters
            l == letters[((n - 1) % NumLetters) + 1]
        IN  Upto(prefix, i) \o <<l>> \o After(prefix, i + 1)]

\* get_two_char_transpose: i and j are Python's 0-based indices
RECURSIVE TransposeFrom(_, _, _)
TransposeFrom(prefix, i, j) ==
    IF i >= Len(prefix) - 1 THEN <<>>
    ELSE IF j >= Len(prefix) THEN TransposeFrom(prefix, i + 1, i + 2)
    ELSE << Upto(prefix, i) \o <<prefix[j + 1]>> \o SubSeq(prefix, i + 2, j)
            \o <<prefix[i + 1]>> \o After(prefix, j + 1) >>
         \o TransposeFrom(prefix, i, j + 1)
get_two_char_transpose(prefix) == TransposeFrom(prefix, 0, 1)

\* get_edits
get_edits(prefix) ==
    get_single_insertions(prefix) \o get_single_deletions(prefix)
    \o get_single_replacement(prefix) \o get_two_char_transpose(prefix)

Range(s) == {s[i] : i \in DOMAIN s}

\* autocorrect had line 286 compared with <= for <
Correct_inclusive(self, prefix, max_count, element_list) ==
    IF max_count = None \/ Len(element_list) <= max_count
    THEN IF prefix.type # "str" THEN {[exc |-> "TypeError"]}
         ELSE
         LET used_words == Range(element_list)
             valid == SelectSeq(get_edits(prefix.units), LAMBDA word :
                          word \notin used_words /\ contains(self, Str(word)).val)
             counts == [i \in DOMAIN valid |-> getitem(self, Str(valid[i])).val]
             freq_map == [c \in Range(counts) |->
                            {valid[i] : i \in {j \in DOMAIN valid : counts[j] = c}}]
             max_freq == MaxFreq(counts, 1, None)
         IN  FillLoop(freq_map, max_freq, element_list, <<>>, max_count)
    ELSE {[exc |-> "none", val |-> element_list]}

\* autocorrect, lines 286-313, given the list autocomplete returned; valid is
\* the words of get_edits(prefix) that pass line 294, in the order yielded
Correct(self, prefix, max_count, element_list) ==
    IF max_count = None \/ Len(element_list) < max_count
    THEN IF prefix.type # "str" THEN {[exc |-> "TypeError"]}  \* tuple + str at line 233
         ELSE
         LET used_words == Range(element_list)
             valid == SelectSeq(get_edits(prefix.units), LAMBDA word :
                          word \notin used_words /\ contains(self, Str(word)).val)
             counts == [i \in DOMAIN valid |-> getitem(self, Str(valid[i])).val]
             freq_map == [c \in Range(counts) |->
                            {valid[i] : i \in {j \in DOMAIN valid : counts[j] = c}}]
             max_freq == MaxFreq(counts, 1, None)
         IN  FillLoop(freq_map, max_freq, element_list, <<>>, max_count)
    ELSE {[exc |-> "none", val |-> element_list]}

\* autocorrect: the outcomes the call can have, each with the element_list
\* that autocomplete gave it
autocorrect(self, prefix, max_count) ==
    UNION {IF ac.exc # "none" THEN {[ac |-> ac, res |-> ac]}
           ELSE {[ac |-> ac, res |-> r] : r \in Correct(self, prefix, max_count, ac.val)} :
           ac \in autocomplete(self, prefix, max_count)}

\* search had it assigned matches with = for |=
RECURSIVE Gather_overwriting(_, _, _)
Gather_overwriting(rs, i, matches) ==
    IF i > Len(rs) THEN [exc |-> "none", val |-> matches]
    ELSE IF rs[i].exc # "none" THEN [exc |-> rs[i].exc]
    ELSE Gather_overwriting(rs, i + 1, rs[i].val)

\* the first exception among results in the order evaluated, else their union
RECURSIVE Gather(_, _, _)
Gather(rs, i, matches) ==
    IF i > Len(rs) THEN [exc |-> "none", val |-> matches]
    ELSE IF rs[i].exc # "none" THEN [exc |-> rs[i].exc]
    ELSE Gather(rs, i + 1, matches \cup rs[i].val)

\* lines 327-328
RECURSIVE SkipStars(_)
SkipStars(pattern) ==
    IF Len(pattern) > 1 /\ pattern[2] = "*" THEN SkipStars(Tail(pattern)) ELSE pattern

\* search
RECURSIVE search(_, _, _)
RECURSIVE Flatten(_, _)
Flatten(ss, i) == IF i > Len(ss) THEN <<>> ELSE ss[i] \o Flatten(ss, i + 1)
search(self, pattern, word) ==
    IF pattern = <<>>
    THEN LET c == contains(self, Str(word))
         IN  IF c.exc # "none" THEN [exc |-> c.exc]
             ELSE IF c.val
             THEN [exc |-> "none", val |-> {<<word, getitem(self, Str(word)).val>>}]
             ELSE [exc |-> "none", val |-> {}]
    ELSE IF pattern[1] = "*"
    THEN LET p == SkipStars(pattern)
             zero == search(self, Tail(p), word)
             f == find_trie(self, Str(word))
         IN  IF zero.exc # "none" THEN zero
             ELSE IF f.exc # "none" THEN [exc |-> f.exc]
             ELSE Gather(Flatten([i \in DOMAIN f.t.children |->
                            LET c == f.t.children[i].k
                            IN  << search(self, p, word \o c) >>
                                \o (IF Len(p) > 1 /\ c = <<p[2]>>
                                    THEN << search(self, Tail(p), word \o c) >>
                                    ELSE <<>>)], 1),
                         1, zero.val)
    ELSE IF pattern[1] = "?"
    THEN LET f == find_trie(self, Str(word))
         IN  IF f.exc # "none" THEN [exc |-> f.exc]
             ELSE Gather([i \in DOMAIN f.t.children |->
                            search(self, Tail(pattern), word \o f.t.children[i].k)],
                         1, {})
    ELSE LET f == find_trie(self, Str(word \o <<pattern[1]>>))
         IN  IF f.exc = "KeyError" THEN [exc |-> "none", val |-> {}]
             ELSE IF f.exc # "none" THEN [exc |-> f.exc]
             ELSE LET r == search(self, Tail(pattern), word \o <<pattern[1]>>)
                  IN  IF r.exc = "KeyError" THEN [exc |-> "none", val |-> {}] ELSE r

\* word_filter: the outcomes the call can have, list(matches) in any order
word_filter(self, pattern) ==
    LET r == search(self, pattern, <<>>)
    IN  IF r.exc # "none" THEN {r}
        ELSE {[exc |-> "none", val |-> l] : l \in Orders(r.val)}

----
\* The calls a program makes on one trie.
VARIABLES trie, last, it
vars == <<trie, last, it>>

\* no generator, or one that has finished
NoGenerator == [live |-> FALSE]

Counts == 0..MaxCount \cup {None}
Patterns == Seqs(KeyLetters \cup {"*", "?"}, MaxPat)

\* Trie(str) at line 135, Trie(tuple) at line 165
Init ==
    /\ trie \in {Trie(ty) : ty \in KeyTypes}
    /\ last = [op |-> "idle"]
    /\ it = NoGenerator

\* The program is sequential: it makes a call, the call returns or raises,
\* and the program goes on to its next call.  last is the call just made,
\* with what it was given and what came of it.
Idle == last.op = "idle"

\* A set or a delete made while a generator is suspended: the generator reads
\* the trie when it is resumed.  changes counts the calls that changed the
\* trie since the generator was made.
Changed(after) ==
    IF it.live /\ after # trie THEN [it EXCEPT !.changes = it.changes + 1] ELSE it
MayChange(after) == (it.live /\ after # trie) => it.changes < MaxMutations

Set ==
    /\ Idle
    /\ \E key \in Keys(trie), value \in Values :
        LET r == setitem(trie, key, value)
        IN  /\ NumNodes(r.self) <= MaxNodes
            /\ MayChange(r.self)
            /\ trie' = r.self
            /\ it' = Changed(r.self)
            /\ last' = [op |-> "set", key |-> key, value |-> value, exc |-> r.exc]

Delete ==
    /\ Idle
    /\ \E key \in Keys(trie) :
        LET r == delitem(trie, key)
        IN  /\ MayChange(r.self)
            /\ trie' = r.self
            /\ it' = Changed(r.self)
            /\ last' = [op |-> "delete", key |-> key, exc |-> r.exc]

Get ==
    /\ Idle
    /\ \E key \in Keys(trie) :
        last' = [op |-> "get", key |-> key, res |-> getitem(trie, key)]
    /\ UNCHANGED <<trie, it>>

Contains ==
    /\ Idle
    /\ \E key \in Keys(trie) :
        last' = [op |-> "contains", key |-> key, res |-> contains(trie, key)]
    /\ UNCHANGED <<trie, it>>

\* trie[key] = value and del trie[key] in a program that goes on whatever
\* came of them, as the body of a loop over the trie may: a call that raises,
\* or that stores what is stored already, leaves every variable as it was
Store ==
    /\ Idle
    /\ \E key \in Keys(trie), value \in Values :
        LET r == setitem(trie, key, value)
        IN  /\ r.self # trie
            /\ NumNodes(r.self) <= MaxBuilt
            /\ MayChange(r.self)
            /\ trie' = r.self
            /\ it' = Changed(r.self)
    /\ UNCHANGED last

Remove ==
    /\ Idle
    /\ \E key \in Keys(trie) :
        LET r == delitem(trie, key)
        IN  /\ r.self # trie
            /\ MayChange(r.self)
            /\ trie' = r.self
            /\ it' = Changed(r.self)
    /\ UNCHANGED last

\* it = iter(trie): a generator is made, and none of its code runs
Iterate ==
    /\ Idle
    /\ it' = [live |-> TRUE, started |-> FALSE, stack |-> <<>>, yielded |-> <<>>,
              changes |-> 0]
    /\ last' = [op |-> "iter"]
    /\ UNCHANGED trie

\* next(it): the generator runs to its next yield or to its end.  last holds
\* what the traversal has yielded so far and the changes made during it.
NextItem ==
    /\ Idle
    /\ it.live
    /\ LET r == resume(trie, it.started, it.stack)
       IN  IF r.ev = "yield"
           THEN /\ it' = [it EXCEPT !.started = TRUE, !.stack = r.stack,
                                    !.yielded = Append(it.yielded, r.item)]
                /\ last' = [op |-> "next", res |-> [exc |-> "none", val |-> r.item],
                            yielded |-> Append(it.yielded, r.item),
                            changes |-> it.changes]
           ELSE /\ it' = NoGenerator
                /\ last' = [op |-> "next", res |-> [exc |-> r.ev],
                            yielded |-> it.yielded, changes |-> it.changes]
    /\ UNCHANGED trie

Autocomplete ==
    /\ Idle
    /\ \E prefix \in Keys(trie), max_count \in Counts :
        \E r \in autocomplete(trie, prefix, max_count) :
            last' = [op |-> "autocomplete", prefix |-> prefix,
                     max_count |-> max_count, res |-> r]
    /\ UNCHANGED <<trie, it>>

Autocorrect ==
    /\ Idle
    /\ \E prefix \in Keys(trie), max_count \in Counts :
        \E r \in autocorrect(trie, prefix, max_count) :
            last' = [op |-> "autocorrect", prefix |-> prefix,
                     max_count |-> max_count, ac |-> r.ac, res |-> r.res]
    /\ UNCHANGED <<trie, it>>

WordFilter ==
    /\ Idle
    /\ \E pattern \in Patterns :
        \E r \in word_filter(trie, pattern) :
            last' = [op |-> "word_filter", pattern |-> pattern, res |-> r]
    /\ UNCHANGED <<trie, it>>

\* the program goes on after a call
Return ==
    /\ ~Idle
    /\ last' = [op |-> "idle"]
    /\ UNCHANGED <<trie, it>>

\* the calls on a trie of either kind
Next == Set \/ Delete \/ Get \/ Contains \/ Return
Spec == Init /\ [][Next]_vars

\* a traversal of a trie of either kind, with sets and deletes between its
\* steps
NextIterate == Store \/ Remove \/ Iterate \/ NextItem \/ Return
SpecIterate == Init /\ [][NextIterate]_vars

\* the searches of a word trie, as make_word_trie builds it
InitWord ==
    /\ trie = Trie("str")
    /\ last = [op |-> "idle"]
    /\ it = NoGenerator

NextComplete == Set \/ Delete \/ Autocomplete \/ Return
SpecComplete == InitWord /\ [][NextComplete]_vars

NextCorrect == Set \/ Delete \/ Autocorrect \/ Return
SpecCorrect == InitWord /\ [][NextCorrect]_vars

\* autocorrect on the tries that Store and Remove build
NextCorrectBuilt == Store \/ Remove \/ Autocorrect \/ Return
SpecCorrectBuilt == InitWord /\ [][NextCorrectBuilt]_vars

NextFilter == Set \/ Delete \/ WordFilter \/ Return
SpecFilter == InitWord /\ [][NextFilter]_vars

----
\* What the properties are stated in.

IsPrefix(p, s) == Len(p) <= Len(s) /\ SubSeq(s, 1, Len(p)) = p
NoDuplicates(s) == \A i, j \in DOMAIN s : i # j => s[i] # s[j]
KeyOf(t, units) == [type |-> t.key_type, units |-> units]
Returned(r, v) == r = [exc |-> "none", val |-> v]

\* the keys of the trie's kind that the trie holds a value for, and the value
Stored(t) == {u \in Words : Returned(contains(t, KeyOf(t, u)), TRUE)}
Freq(t, u) == getitem(t, KeyOf(t, u)).val

\* a word matches a pattern: ? is one character, * is any number of them
RECURSIVE Matches(_, _)
Matches(pattern, word) ==
    IF pattern = <<>> THEN word = <<>>
    ELSE IF pattern[1] = "*"
    THEN Matches(Tail(pattern), word) \/ (word # <<>> /\ Matches(pattern, Tail(word)))
    ELSE /\ word # <<>>
         /\ pattern[1] \in {"?", word[1]}
         /\ Matches(Tail(pattern), Tail(word))

\* the words one edit away from a word: one character inserted, one deleted,
\* one replaced, or two adjacent characters exchanged
OneEdit(w) ==
    LET n == Len(w)
    IN  {Upto(w, i) \o <<l>> \o After(w, i) : i \in 0..n, l \in Range(letters)}
        \cup {Upto(w, i - 1) \o After(w, i) : i \in 1..n}
        \cup {[w EXCEPT ![i] = l] : i \in 1..n, l \in Range(letters)}
        \cup {[w EXCEPT ![i] = w[i + 1], ![i + 1] = w[i]] : i \in 1..(n - 1)}

----
\* C1: after set(k, v) with a key of the trie's kind, get(k) returns v and
\* contains(k) is true.
SetThenGet ==
    (last.op = "set" /\ valid_key(trie, last.key)) =>
        /\ Returned(getitem(trie, last.key), last.value)
        /\ Returned(contains(trie, last.key), TRUE)

\* C2: after a delete(k) that cleared a value, contains(k) is false, get(k)
\* raises KeyError and another delete(k) raises KeyError.
DeleteThenAbsent ==
    (last.op = "delete" /\ last.exc = "none") =>
        /\ Returned(contains(trie, last.key), FALSE)
        /\ getitem(trie, last.key).exc = "KeyError"
        /\ delitem(trie, last.key).exc = "KeyError"

\* C8: a traversal run to its end on a trie that no call changes meanwhile
\* ends normally, and has yielded exactly the (k, v) with contains(k) and
\* get(k) = v, each once, and a key before every key it is a proper prefix of.
IterateComplete ==
    (last.op = "next" /\ last.res.exc # "none" /\ last.changes = 0) =>
        LET es == last.yielded
        IN  /\ last.res.exc = "StopIteration"
            /\ \A i \in DOMAIN es :
                /\ Returned(contains(trie, KeyOf(trie, es[i][1])), TRUE)
                /\ Returned(getitem(trie, KeyOf(trie, es[i][1])), es[i][2])
            /\ \A u \in Stored(trie) :
                Cardinality({i \in DOMAIN es : es[i][1] = u}) = 1
            /\ \A i, j \in DOMAIN es :
                (IsPrefix(es[i][1], es[j][1]) /\ es[i][1] # es[j][1]) => i < j

IterateCompleteWitness ==
    /\ last.op = "next"
    /\ last.res.exc = "StopIteration"
    /\ last.changes = 0
    /\ \E i, j \in DOMAIN last.yielded :
        /\ IsPrefix(last.yielded[i][1], last.yielded[j][1])
        /\ last.yielded[i][1] # last.yielded[j][1]
    /\ Range(last.yielded) = Range(iter(trie))

\* C9: a delete(k) that succeeds removes no node and changes the value at k's
\* node only (putting the value back gives the trie before), so contains and
\* get of every other key are as before; a delete that raises changes nothing.
DeleteFrame ==
    [][last'.op = "delete" =>
        IF last'.exc = "none"
        THEN /\ \A q \in Keys(trie) :
                    find_trie(trie, q).exc = "none" => find_trie(trie', q).exc = "none"
             /\ \A q \in Keys(trie) : q # last'.key =>
                    /\ contains(trie', q) = contains(trie, q)
                    /\ getitem(trie', q) = getitem(trie, q)
             /\ setitem(trie', last'.key, getitem(trie, last'.key).val).self = trie
        ELSE trie' = trie]_vars

DeleteFrameWitness ==
    /\ last.op = "delete"
    /\ last.exc = "none"
    /\ find_trie(trie, last.key).t.children # <<>>
    /\ Len(last.key.units) > 1
    /\ Stored(trie) # {}

\* C3: autocomplete returns at most max_count elements, no element twice, each
\* starting with the prefix and a key of the trie, and none of them with a
\* lower frequency than a completion of the prefix that it left out.
AutocompleteTopN ==
    (last.op = "autocomplete" /\ last.res.exc = "none" /\ last.res.val # <<>>) =>
        LET r == last.res.val
            p == last.prefix.units
            left_out == {c \in Words : /\ IsPrefix(p, c)
                                       /\ c \notin Range(r)
                                       /\ Returned(contains(trie, KeyOf(trie, c)), TRUE)}
        IN  /\ last.max_count # None => Len(r) <= last.max_count
            /\ NoDuplicates(r)
            /\ \A i \in DOMAIN r :
                    /\ IsPrefix(p, r[i])
                    /\ Returned(contains(trie, KeyOf(trie, r[i])), TRUE)
                    /\ \A c \in left_out : Freq(trie, r[i]) >= Freq(trie, c)

AutocompleteTopNWitness ==
    /\ last.op = "autocomplete"
    /\ last.res.exc = "none"
    /\ last.max_count = Len(last.res.val)
    /\ \E c \in Stored(trie) :
        /\ IsPrefix(last.prefix.units, c)
        /\ c \notin Range(last.res.val)
        /\ \E i \in DOMAIN last.res.val : Freq(trie, last.res.val[i]) > Freq(trie, c)

\* C10: autocomplete at a prefix whose node exists and whose subtree holds no
\* value returns the empty list.
AutocompleteEmptied ==
    (/\ last.op = "autocomplete"
     /\ find_trie(trie, last.prefix).exc = "none"
     /\ \A c \in Stored(trie) : ~IsPrefix(last.prefix.units, c)) =>
        Returned(last.res, <<>>)

\* C4: on a trie of str keys word_filter returns the (key, frequency) pairs
\* the trie holds (those a traversal yields, C8) whose key matches the pattern,
\* each once; for a pattern of letters only that is the pattern's own pair if
\* the pattern is a stored key, else nothing.
WordFilterMatches ==
    (last.op = "word_filter" /\ trie.key_type = "str") =>
        /\ last.res.exc = "none"
        /\ NoDuplicates(last.res.val)
        /\ Range(last.res.val) = {e \in Range(iter(trie)) : Matches(last.pattern, e[1])}
        /\ Range(last.pattern) \subseteq KeyLetters =>
              Range(last.res.val) =
                  IF Returned(contains(trie, Str(last.pattern)), TRUE)
                  THEN {<<last.pattern, Freq(trie, last.pattern)>>} ELSE {}

WordFilterMatchesWitness ==
    /\ last.op = "word_filter"
    /\ trie.key_type = "str"
    /\ \E i \in 1..(Len(last.pattern) - 1) : last.pattern[i] = "*" /\ last.pattern[i + 1] # "*"
    /\ Len(last.res.val) >= 2
    /\ \E u \in Stored(trie) : ~Matches(last.pattern, u)

\* C5: what autocorrect returns after the autocomplete results are stored keys
\* one edit away from the prefix.
AutocorrectOneEdit ==
    (last.op = "autocorrect" /\ last.res.exc = "none") =>
        \A i \in (Len(last.ac.val) + 1)..Len(last.res.val) :
            /\ last.res.val[i] \in Stored(trie)
            /\ last.res.val[i] \in OneEdit(last.prefix.units)

\* C6 as stated: when autocomplete gives max_count results, or max_count is
\* unset and it gives at least one, autocorrect returns that list.
AutocorrectEarlyReturn ==
    (/\ last.op = "autocorrect"
     /\ last.ac.exc = "none"
     /\ last.res.exc = "none"
     /\ \/ last.max_count # None /\ Len(last.ac.val) = last.max_count
        \/ last.max_count = None /\ Len(last.ac.val) >= 1) =>
        last.res = last.ac

\* C6 as amended: when max_count is set and autocomplete gives max_count
\* results, autocorrect returns that list.
AutocorrectEarlyReturnCounted ==
    (/\ last.op = "autocorrect"
     /\ last.ac.exc = "none"
     /\ last.max_count # None
     /\ Len(last.ac.val) = last.max_count) =>
        last.res = last.ac

AutocorrectEarlyReturnWitness ==
    /\ last.op = "autocorrect"
    /\ last.ac.exc = "none"
    /\ last.max_count = Len(last.ac.val)
    /\ last.max_count >= 1
    /\ last.prefix.type = "str"
    /\ \E w \in Range(get_edits(last.prefix.units)) :
        w \in Stored(trie) /\ w \notin Range(last.ac.val)

\* the edits of the prefix that are stored keys and not autocomplete results
ValidEdits(t, prefix, ac) ==
    {w \in Range(get_edits(prefix)) : w \in Stored(t) /\ w \notin Range(ac)}

\* C7: when autocomplete gives fewer than max_count results, autocorrect
\* returns them followed by valid edits, most frequent first, as many as fit
\* or as there are; with no valid edit it returns the autocomplete results.
AutocorrectFill ==
    (/\ last.op = "autocorrect"
     /\ last.prefix.type = "str"
     /\ last.ac.exc = "none"
     /\ last.max_count # None
     /\ Len(last.ac.val) < last.max_count) =>
        /\ last.res.exc = "none"
        /\ LET ac == last.ac.val
               r == last.res.val
               valid == ValidEdits(trie, last.prefix.units, ac)
               room == last.max_count - Len(ac)
               added == SubSeq(r, Len(ac) + 1, Len(r))
           IN  /\ IsPrefix(ac, r)
               /\ Range(added) \subseteq valid
               /\ NoDuplicates(added)
               /\ Len(added) = IF Cardinality(valid) < room THEN Cardinality(valid) ELSE room
               /\ \A i, j \in DOMAIN added :
                    i < j => Freq(trie, added[i]) >= Freq(trie, added[j])
====
